---- MODULE Spec2Model ----
(***************************************************************************)
(* useStorageTS (packages/storagets/src/use-storagets.ts): a React hook    *)
(* binding one component's state to one localStorage key, with an optional *)
(* validator.  The model keeps, per hook instance, the React state cell,   *)
(* the key of the latest render and the pending useEffect; localStorage is *)
(* one store shared by all instances.  One step is one event: a mount, an  *)
(* unmount, a render with another key, the effect, or an event handler     *)
(* that calls setValue.  React renders again after each event that set the *)
(* state, so between events the closures hold the current state; within    *)
(* one handler every setValue call is the same closure and sees the state  *)
(* of the render that made it.                                             *)
(***************************************************************************)
EXTENDS Integers, Sequences, FiniteSets, TLC

VARIABLES
    hasWindow,    \* typeof window !== "undefined"
    storage,      \* window.localStorage: a function from the keys present to text
    validatorFn,  \* the validatorFn argument of the hook calls
    defaultValue, \* [binding -> the defaultValue argument]
    mounted,      \* [binding -> whether the component is mounted]
    key,          \* [binding -> the key argument of the latest render]
    state,        \* [binding -> the useState cell, as of the latest render]
    effect,       \* [binding -> the pending useEffect: "none", "mount", "rekey"]
    last,         \* history: the event that ran last, its inputs and outcome
    written       \* history: [key -> the finalValue of the last update stored there]

vars == <<hasWindow, storage, validatorFn, defaultValue, mounted, key, state,
          effect, last, written>>

(***************************************************************************)
(* Bounds                                                                  *)
(***************************************************************************)
\* The largest count an update function produces is MaxCount + 1.
MaxCount == 1
\* The most setValue calls one event handler makes.
MaxCalls == 2

(***************************************************************************)
(* JavaScript values.  Every value is a tagged record, an object holds a   *)
(* function from its own property names to values.                         *)
(***************************************************************************)
Null == [t |-> "null"]
Undefined == [t |-> "undefined"]
Thrown == [t |-> "throw"]
Num(n) == [t |-> "num", n |-> n]
Str(s) == [t |-> "str", s |-> s]
Obj(f) == [t |-> "obj", o |-> f]

IsObj(v) == v.t = "obj"
Has(v, p) == IsObj(v) /\ p \in DOMAIN v.o
IsNum(v) == v.t = "num"

\* The order JSON.stringify emits properties in (objects here are unordered;
\* deep equality does not see the order).
KeyOrder == <<"a", "b", "count", "x", "y">>

Digits == <<"0", "1", "2", "3", "4", "5", "6", "7", "8", "9">>

RECURSIVE NumText(_)
NumText(n) == IF n < 10 THEN Digits[n + 1]
              ELSE NumText(n \div 10) \o Digits[(n % 10) + 1]

\* JSON.stringify: a property whose value is undefined is left out.
RECURSIVE JSON_stringify(_), Members(_, _, _)
Members(f, i, first) ==
    IF i > Len(KeyOrder) THEN ""
    ELSE LET p == KeyOrder[i] IN
         IF p \in DOMAIN f /\ f[p] # Undefined
         THEN (IF first THEN "" ELSE ",") \o "\"" \o p \o "\":"
              \o JSON_stringify(f[p]) \o Members(f, i + 1, FALSE)
         ELSE Members(f, i + 1, first)
JSON_stringify(v) ==
    CASE v.t = "num" -> NumText(v.n)
      [] v.t = "null" -> "null"
      [] v.t = "str" -> "\"" \o v.s \o "\""
      [] v.t = "obj" -> "{" \o Members(v.o, 1, TRUE) \o "}"

\* The JSON documents the model can read back.
PropValues(p) ==
    CASE p = "a" -> {Num(1)}
      [] p = "b" -> { Obj(f) : f \in UNION { [D -> {Num(1), Num(2)}] : D \in SUBSET {"x", "y"} } }
      [] p = "count" -> { Num(n) : n \in 0..(MaxCount + 2) }
Documents ==
    {Null} \cup
    { Obj(f) : f \in UNION { { g \in [D -> UNION { PropValues(p) : p \in D }] :
                                 \A p \in D : g[p] \in PropValues(p) } :
                             D \in SUBSET {"a", "b", "count"} } }
ParseTable == [ s \in { JSON_stringify(d) : d \in Documents } |->
                  CHOOSE d \in Documents : JSON_stringify(d) = s ]

\* JSON.parse: the value a JSON text denotes, a SyntaxError for any other text.
JSON_parse(text) == IF text \in DOMAIN ParseTable THEN ParseTable[text] ELSE Thrown

\* { ...s, ...c }: own properties of s, then of c; spreading null gives none.
Spread(s, c) ==
    LET so == IF IsObj(s) THEN s.o ELSE <<>>
        co == IF IsObj(c) THEN c.o ELSE <<>>
    IN Obj([p \in DOMAIN so \cup DOMAIN co |-> IF p \in DOMAIN co THEN co[p] ELSE so[p]])

\* x ?? d
Coalesce(x, d) == IF x = Null \/ x = Undefined THEN d ELSE x

(***************************************************************************)
(* The arguments the callers pass                                          *)
(***************************************************************************)
Bindings == {"A", "B"}
Keys == {"counter", "prefs"}

Rec1(p, v) == Obj([q \in {p} |-> v])
Rec2(p, v, q, w) == Obj([r \in {p, q} |-> IF r = p THEN v ELSE w])

\* defaultValue arguments: the counter of the README and a nested record.
Defaults == { Rec1("count", Num(0)), Rec2("a", Num(1), "b", Rec1("x", Num(1))) }

\* validatorFn arguments: none; a range check that returns its argument (README,
\* Type-Safe Validation); an object schema that returns only the fields it knows
\* (README, Using with Zod).
Validators == {"none", "range", "schema"}

\* Literal update values.
Literals == { Rec1("b", Rec1("y", Num(2))),
              Rec2("a", Undefined, "count", Num(1)),
              Rec1("count", Num(MaxCount + 2)) }

\* The update function of the README's counter: prev => ({...prev, count: prev.count + 1}).
Increment == [t |-> "fn", name |-> "increment"]
Updates == Literals \cup {Increment}

\* What localStorage may hold before the first mount.
InitialStores ==
    { <<>>,
      [k \in {"counter"} |-> "{\"count\":2}"],
      [k \in {"counter"} |-> "{oops"],
      [k \in {"prefs"} |-> ""],
      [k \in Keys |-> IF k = "counter" THEN "{\"a\":1,\"count\":1}" ELSE "null"] }

ValidatorFn(fn, value) ==
    CASE fn = "range" ->
           IF Has(value, "count") /\ IsNum(value.o["count"])
              /\ value.o["count"].n <= MaxCount + 1
           THEN value ELSE Thrown
      [] fn = "schema" ->
           IF Has(value, "count") /\ IsNum(value.o["count"])
           THEN Rec1("count", value.o["count"]) ELSE Thrown

Apply(u, prev) == Spread(prev, Rec1("count", Num(prev.o["count"].n + 1)))

(***************************************************************************)
(* useStorageTS                                                            *)
(***************************************************************************)
\* validator with the catch falling through to `return value as T`.
validator_fallthrough(fn, value) ==
    IF fn # "none"
    THEN LET validatedValue == ValidatorFn(fn, value)
         IN IF validatedValue = Thrown THEN value ELSE validatedValue
    ELSE value

\* const validator = (value) => ...: the validatorFn's result, undefined when it
\* throws, the value itself when there is no validatorFn.
validator(fn, value) ==
    IF fn # "none"
    THEN LET validatedValue == ValidatorFn(fn, value)
         IN IF validatedValue = Thrown THEN Undefined ELSE validatedValue
    ELSE value

\* return [state ?? defaultValue, setValue]: the Observable State.
Returned(b) == Coalesce(state[b], defaultValue[b])

\* updateOrValue(state ?? defaultValue) or updateOrValue; s is the closure's state.
UpdateValue(b, s, u) ==
    IF u.t = "fn" THEN Apply(u, Coalesce(s, defaultValue[b])) ELSE u

\* finalValue: value, or { ...state, ...value }; s is the closure's state.
FinalValue(b, s, u, merge) ==
    IF merge THEN Spread(s, UpdateValue(b, s, u)) ELSE UpdateValue(b, s, u)

\* window.localStorage.setItem(k, text)
SetItem(store, k, text) ==
    [q \in DOMAIN store \cup {k} |-> IF q = k THEN text ELSE store[q]]

\* setItem given the text of the value as it was before validation.
ItemText_unvalidated(validatedValue, finalValue) == JSON_stringify(finalValue)

\* The text setValue writes: JSON.stringify(validatedValue).
ItemText(validatedValue, finalValue) == JSON_stringify(validatedValue)

\* One state cell per key, shared by the bindings mounted on it.
SetState_shared(b, v) ==
    [c \in Bindings |-> IF c = b \/ (mounted[c] /\ key[c] = key[b]) THEN v ELSE state[c]]

\* setState(v) of binding b: only b's cell changes.
SetState(b, v) == [state EXCEPT ![b] = v]

\* The effect handing the stored text itself to the validator.
Parsed_raw(text) == Str(text)

\* The value the effect hands to the validator: JSON.parse(value).
Parsed(text) == JSON_parse(text)

\* The state the n-th setValue call of one handler works from: `state` of the
\* closure, whatever the calls before it have set.
ClosureState(b, pending) == state[b]

\* n setValue(u, {merge}) calls of one handler, the cell holding `pending` so far:
\* the value the cell ends with.
RECURSIVE Calls(_, _, _, _, _)
Calls(b, pending, u, merge, n) ==
    IF n = 0 THEN pending
    ELSE LET validatedValue ==
                 validator(validatorFn, FinalValue(b, ClosureState(b, pending), u, merge))
         IN Calls(b, IF validatedValue # Undefined THEN validatedValue ELSE pending,
                  u, merge, n - 1)

\* The record of an event: which, of which binding, how it ended, and whether an
\* exception left the hook's code.
Op(op, b, outcome, thrown) ==
    [op |-> op, b |-> b, outcome |-> outcome, thrown |-> thrown]

\* The component mounts: useState(null), the first render, the effect is queued.
Mount(b, k, d) ==
    /\ ~mounted[b]
    /\ mounted' = [mounted EXCEPT ![b] = TRUE]
    /\ key' = [key EXCEPT ![b] = k]
    /\ defaultValue' = [defaultValue EXCEPT ![b] = d]
    /\ state' = SetState(b, Null)
    /\ effect' = [effect EXCEPT ![b] = "mount"]
    /\ last' = Op("mount", b, "none", FALSE)
    /\ UNCHANGED <<hasWindow, storage, validatorFn, written>>

\* The component unmounts: its state is discarded, the stored entry stays.
Unmount(b) ==
    /\ mounted[b]
    /\ mounted' = [mounted EXCEPT ![b] = FALSE]
    /\ state' = SetState(b, Null)
    /\ effect' = [effect EXCEPT ![b] = "none"]
    /\ last' = Op("unmount", b, "none", FALSE)
    /\ UNCHANGED <<hasWindow, storage, validatorFn, defaultValue, key, written>>

\* A render with another key: the state cell is kept, the dependency [key]
\* changed, so the effect is queued.
Rekey(b, k) ==
    /\ mounted[b] /\ effect[b] = "none" /\ k # key[b]
    /\ key' = [key EXCEPT ![b] = k]
    /\ effect' = [effect EXCEPT ![b] = "rekey"]
    /\ last' = Op("rekey", b, "none", FALSE)
    /\ UNCHANGED <<hasWindow, storage, validatorFn, defaultValue, mounted, state,
                   written>>

\* The effect runs after the mount ("init") and after a render with another key
\* ("reinit").
EffectOp(b) == IF effect[b] = "mount" THEN "init" ELSE "reinit"

\* The useEffect body.  fault: window.localStorage.getItem throws.
RunEffect(b, fault) ==
    /\ mounted[b] /\ effect[b] # "none"
    /\ effect' = [effect EXCEPT ![b] = "none"]
    /\ UNCHANGED <<hasWindow, storage, validatorFn, defaultValue, mounted, key,
                   written>>
    /\ IF ~hasWindow
       THEN /\ state' = state
            /\ last' = Op(EffectOp(b), b, "noop", FALSE)
       ELSE IF fault
       THEN /\ state' = state
            /\ last' = Op(EffectOp(b), b, "fault", TRUE)
       ELSE IF key[b] \notin DOMAIN storage \/ storage[key[b]] = ""
       THEN /\ state' = state
            /\ last' = Op(EffectOp(b), b, "absent", FALSE)
       ELSE LET parsed == Parsed(storage[key[b]])
                validatedValue == validator(validatorFn, parsed)
            IN IF parsed = Thrown
               THEN /\ state' = state
                    /\ last' = Op(EffectOp(b), b, "unparseable", FALSE)
               ELSE IF validatedValue # Undefined
               THEN /\ state' = SetState(b, validatedValue)
                    /\ last' = Op(EffectOp(b), b, "adopted", FALSE)
               ELSE /\ state' = state
                    /\ last' = Op(EffectOp(b), b, "invalid", FALSE)

\* An event handler that calls setValue(u, {merge}) n times.  fault:
\* window.localStorage.setItem throws (the first time it is called, and the
\* exception ends the handler).
Update(b, u, merge, n, fault) ==
    /\ mounted[b] /\ effect[b] = "none"
    /\ u.t = "fn" => /\ Has(Returned(b), "count")
                     /\ Returned(b).o["count"].n + n <= MaxCount + 1
    /\ UNCHANGED <<hasWindow, validatorFn, defaultValue, mounted, key, effect>>
    /\ IF ~hasWindow
       THEN /\ UNCHANGED <<state, storage, written>>
            /\ last' = Op("update", b, "noop", FALSE)
       ELSE LET finalValue == FinalValue(b, state[b], u, merge)
                validatedValue == validator(validatorFn, finalValue)
            IN IF validatedValue # Undefined
               THEN IF fault
                    THEN /\ state' = SetState(b, validatedValue)
                         /\ UNCHANGED <<storage, written>>
                         /\ last' = Op("update", b, "accepted", TRUE)
                    ELSE /\ state' = SetState(b, Calls(b, state[b], u, merge, n))
                         /\ storage' = SetItem(storage, key[b],
                                               ItemText(validatedValue, finalValue))
                         /\ written' = SetItem(written, key[b], finalValue)
                         /\ last' = Op("update", b, "accepted", FALSE)
               ELSE /\ UNCHANGED <<state, storage, written>>
                    /\ last' = Op("update", b, "rejected", FALSE)

\* Nothing is mounted yet; the store holds one of Stores, the hooks are called
\* with one of the validators Vs.
Start(Stores, Vs) ==
    /\ hasWindow \in BOOLEAN
    /\ storage \in Stores
    /\ validatorFn \in Vs
    /\ defaultValue = [b \in Bindings |-> Rec1("count", Num(0))]
    /\ mounted = [b \in Bindings |-> FALSE]
    /\ key = [b \in Bindings |-> "counter"]
    /\ state = [b \in Bindings |-> Null]
    /\ effect = [b \in Bindings |-> "none"]
    /\ last = Op("none", "A", "none", FALSE)
    /\ written = <<>>

Init == Start(InitialStores, Validators)

\* One event of a binding in Bs, with arguments from Ds and Us, handlers calling
\* setValue Ns times.
Step(Bs, Ds, Us, Ns, Faults) ==
    \E b \in Bs :
        \/ \E k \in Keys, d \in Ds : Mount(b, k, d)
        \/ Unmount(b)
        \/ \E k \in Keys : Rekey(b, k)
        \/ \E fault \in Faults : RunEffect(b, fault)
        \/ \E u \in Us, merge \in BOOLEAN, n \in Ns, fault \in Faults :
               Update(b, u, merge, n, fault)

\* One binding; the store keeps its contract: getItem and setItem never throw.
Next == Step({"A"}, Defaults, Updates, 1..MaxCalls, {FALSE})
Spec == Init /\ [][Next]_vars

\* Two bindings of counter components on the same store, their handlers calling
\* setValue once.
PairUpdates == {Increment, Rec2("a", Num(1), "count", Num(1)),
                Rec2("a", Undefined, "count", Num(1))}
InitPair == Start({ <<>>, [k \in {"counter"} |-> "{\"count\":2}"] },
                  {"none", "schema"})
NextPair == Step(Bindings, {Rec1("count", Num(0))}, PairUpdates, {1}, {FALSE})
SpecPair == InitPair /\ [][NextPair]_vars

\* One binding on a store whose getItem and setItem may throw.
NextFaulty == Step({"A"}, {Rec1("count", Num(0))},
                   {Increment, Rec1("count", Num(MaxCount + 2))}, 1..MaxCalls, BOOLEAN)
SpecFaulty == Init /\ [][NextFaulty]_vars

(***************************************************************************)
(* Properties                                                              *)
(***************************************************************************)
\* The validatorFn raises on what setValue(u, {merge}) of binding b hands it.
Raises(b, u, merge) ==
    /\ validatorFn # "none"
    /\ ValidatorFn(validatorFn, FinalValue(b, state[b], u, merge)) = Thrown

\* A value JSON represents exactly: no property holds undefined.
RECURSIVE IsJson(_)
IsJson(v) ==
    IF IsObj(v) THEN \A p \in DOMAIN v.o : v.o[p] # Undefined /\ IsJson(v.o[p])
    ELSE v # Undefined

\* f applied n times to v, f the update function u.
RECURSIVE NFold(_, _, _)
NFold(u, v, n) == IF n = 0 THEN v ELSE NFold(u, Apply(u, v), n - 1)

\* C1: an update whose candidate makes the validator raise is discarded: the
\* state, the stored entries and everything else stay as they were, and no
\* exception reaches the caller.
C1_RejectedUpdateChangesNothing ==
    [][\A b \in Bindings, u \in Updates, merge \in BOOLEAN, n \in 1..MaxCalls :
         (hasWindow /\ last'.op = "update" /\ last'.b = b
          /\ Update(b, u, merge, n, FALSE) /\ Raises(b, u, merge))
         => (state' = state /\ storage' = storage /\ ~last'.thrown)]_vars

\* C1 witness: an update was rejected while the binding held an adopted value and
\* the key had a stored entry.
C1_Witness ==
    /\ last.op = "update" /\ last.outcome = "rejected"
    /\ state[last.b] # Null
    /\ key[last.b] \in DOMAIN storage

\* The effect of binding b finds a stored text it can parse and validate.
Readable(b) ==
    /\ key[b] \in DOMAIN storage
    /\ storage[key[b]] # ""
    /\ JSON_parse(storage[key[b]]) # Thrown
    /\ validator(validatorFn, JSON_parse(storage[key[b]])) # Undefined

\* C2, as claimed: once an update has stored V under a key, a fresh binding
\* mounted on that key holds V after its initialization.
C2_RoundTrip ==
    [][\A b \in Bindings :
         (hasWindow /\ effect[b] = "mount" /\ RunEffect(b, FALSE)
          /\ key[b] \in DOMAIN written)
         => state'[b] = written[key[b]]]_vars

\* C2, amended: once an update has stored V under a key, V a value JSON
\* represents exactly and one the validator returns unchanged, a fresh binding
\* mounted on that key holds V after its initialization.
C2_RoundTripOfFixedPoints ==
    [][\A b \in Bindings :
         (hasWindow /\ effect[b] = "mount" /\ RunEffect(b, FALSE)
          /\ key[b] \in DOMAIN written
          /\ IsJson(written[key[b]])
          /\ validator(validatorFn, written[key[b]]) = written[key[b]])
         => state'[b] = written[key[b]]]_vars

\* C2 witness: a binding has just been initialized from an entry another binding's
\* update stored, and holds the value of that update.
C2_Witness ==
    /\ last.op = "init" /\ last.outcome = "adopted"
    /\ key[last.b] \in DOMAIN written
    /\ state[last.b] = written[key[last.b]]
    /\ \E a \in Bindings \ {last.b} : mounted[a] /\ key[a] = key[last.b]
                                       /\ state[a] = state[last.b]

\* C3, as claimed: while the store holds no entry for its key, a binding returns
\* defaultValue, and the effect writes nothing.
C3_NoEntryReturnsDefault ==
    /\ [](\A b \in Bindings :
            (mounted[b] /\ key[b] \notin DOMAIN storage)
            => Returned(b) = defaultValue[b])
    /\ [][\A b \in Bindings : RunEffect(b, FALSE) => storage' = storage]_vars

\* C4, as claimed: an accepted update with merge leaves the shallow merge of the
\* candidate over the value the binding returned.
C4_MergeOverObservable ==
    [][\A b \in Bindings, u \in Updates :
         (hasWindow /\ Update(b, u, TRUE, 1, FALSE) /\ ~Raises(b, u, TRUE))
         => state'[b] = validator(validatorFn,
                                  Spread(Returned(b), UpdateValue(b, state[b], u)))]_vars

\* C5, as claimed: when the stored text is not JSON the effect throws nothing,
\* leaves the store alone, and the binding returns defaultValue afterwards.
C5_UnparseableFallsBack ==
    [][\A b \in Bindings :
         (hasWindow /\ RunEffect(b, FALSE)
          /\ key[b] \in DOMAIN storage /\ JSON_parse(storage[key[b]]) = Thrown)
         => (~last'.thrown /\ storage' = storage
             /\ Returned(b)' = defaultValue[b])]_vars

\* C6, as claimed: no event lets an exception out of the hook, and an update whose
\* setItem failed leaves the state as it was.
C6_NeverFails ==
    [][/\ ~last'.thrown
       /\ \A b \in Bindings, u \in Updates, merge \in BOOLEAN, n \in 1..MaxCalls :
            (hasWindow /\ Update(b, u, merge, n, TRUE)) => state' = state]_vars

\* C7, as claimed: n calls of setValue with an update function, in one handler or
\* not, leave the function applied n times to the state, and its text stored.
C7_FunctionUpdatesAccumulate ==
    [][\A b \in Bindings, n \in 1..MaxCalls :
         (hasWindow /\ Update(b, Increment, FALSE, n, FALSE)
          /\ last'.outcome = "accepted")
         => /\ state'[b] = validator(validatorFn, NFold(Increment, Returned(b), n))
            /\ storage'[key[b]] = JSON_stringify(state'[b])]_vars

\* C8, as claimed: after the effect has run for a new key the binding returns the
\* validated stored value of that key, and defaultValue when there is none.
C8_RekeyReflectsNewKeyOnly ==
    [][\A b \in Bindings :
         (hasWindow /\ effect[b] = "rekey" /\ RunEffect(b, FALSE))
         => Returned(b)' =
              IF Readable(b)
              THEN Coalesce(validator(validatorFn, JSON_parse(storage[key[b]])),
                            defaultValue[b])
              ELSE defaultValue[b]]_vars

\* C9: one binding, no other writer: after an accepted update the entry under the
\* binding's key is the text of its state, and no event changes the entry of
\* another key.
C9_Mirror ==
    /\ []((last.op = "update" /\ last.outcome = "accepted")
          => /\ key[last.b] \in DOMAIN storage
             /\ storage[key[last.b]] = JSON_stringify(state[last.b]))
    /\ [][\A k \in Keys \ {key[last'.b]} :
            /\ k \in DOMAIN storage' <=> k \in DOMAIN storage
            /\ k \in DOMAIN storage => storage'[k] = storage[k]]_vars

\* C9 witness: an update was accepted, the state is an object and the entry is
\* its text.
C9_Witness ==
    /\ last.op = "update" /\ last.outcome = "accepted"
    /\ IsObj(state[last.b])
    /\ key[last.b] \in DOMAIN storage
    /\ storage[key[last.b]] = JSON_stringify(state[last.b])
    /\ validatorFn = "schema"

\* C10: an accepted update through one binding changes no other binding's state;
\* what it sets and stores is what one of the updates gives from that binding's
\* own state, whatever the entry and the other binding held; and a binding's
\* state changes only in its own events.
C10_IndependentStates ==
    /\ [][(hasWindow /\ last'.op = "update" /\ last'.outcome = "accepted")
          => /\ \A b \in Bindings \ {last'.b} : state'[b] = state[b]
             /\ \E u \in PairUpdates, merge \in BOOLEAN :
                  /\ u.t = "fn" => Has(Returned(last'.b), "count")
                  /\ state'[last'.b] =
                       validator(validatorFn,
                                 FinalValue(last'.b, state[last'.b], u, merge))
                  /\ storage'[key[last'.b]] = JSON_stringify(state'[last'.b])]_vars
    /\ [][\A b \in Bindings : state'[b] # state[b] => last'.b = b]_vars

\* C10 witness: two bindings on one key; the update of one has just overwritten
\* the entry, and the other holds a different value of its own.
C10_Witness ==
    /\ last.op = "update" /\ last.outcome = "accepted"
    /\ \E b \in Bindings \ {last.b} :
         /\ mounted[b] /\ effect[b] = "none" /\ key[b] = key[last.b]
         /\ IsObj(state[b])
         /\ state[b] # state[last.b]
         /\ storage[key[b]] # JSON_stringify(state[b])
         /\ storage[key[b]] = JSON_stringify(state[last.b])

\* What C3 and C5 say does hold of the effect that follows a mount: with no entry,
\* an empty one or one that is not JSON, the binding returns defaultValue before
\* and after it, and the store is left alone.
FirstInitFallsBack ==
    [][\A b \in Bindings :
         (hasWindow /\ effect[b] = "mount" /\ RunEffect(b, FALSE)
          /\ (key[b] \notin DOMAIN storage \/ JSON_parse(storage[key[b]]) = Thrown))
         => (Returned(b) = defaultValue[b] /\ Returned(b)' = defaultValue[b]
             /\ storage' = storage /\ ~last'.thrown)]_vars

====
